---- MODULE Spec2Model ----
(***************************************************************************)
(* Model of the App component of src/index.tsx: the image analysis flow    *)
(* (analyzeImageWithAI), the speech flow (handleTextToSpeech), image       *)
(* selection and Clear, together with the browser resources they create    *)
(* (object URLs, Audio elements) and the promises they leave pending.      *)
(* An async handler is one action per synchronous run: the part before its *)
(* first await, and one continuation per awaited result.  React 18 batches *)
(* the setState calls of one synchronous run into one render, so each run  *)
(* is one atomic step, and the handlers of the next event see the state    *)
(* that step left.                                                         *)
(***************************************************************************)
EXTENDS Integers, Sequences, FiniteSets, TLC

\* ------------------------------------------------------------------------
\* Bounds of the model
\* ------------------------------------------------------------------------
\* Most object URLs that may be live at once (leaked ones included).
MaxUrls == 2
\* Most analyzeImageWithAI invocations that may be pending at once.
MaxPending == 2
\* Most verdict fields of one response that are missing or outside the enum.
MaxOffEnum == 1
\* Most samples handed to pcmToWav.
MaxSamples == 3
\* Most bytes of a file handed to fileToBase64.
MaxBytes == 4

\* ------------------------------------------------------------------------
\* JavaScript values
\* ------------------------------------------------------------------------
null == "null"
undefined == "undefined"

\* A JavaScript value used as a condition (`!text`, `imageUrl && ...`,
\* `parsedJson.tags || []`, `{title && ...}`).
Truthy(v) == v \notin {null, undefined, ""}

\* String.prototype.startsWith on strings held as sequences of characters.
StartsWith(s, prefix) ==
    /\ Len(s) >= Len(prefix)
    /\ \A i \in 1..Len(prefix) : s[i] = prefix[i]

Digits == {"0", "1", "2", "3", "4", "5", "6", "7", "8", "9"}

DigitValue(c) ==
    CASE c = "0" -> 0 [] c = "1" -> 1 [] c = "2" -> 2 [] c = "3" -> 3
      [] c = "4" -> 4 [] c = "5" -> 5 [] c = "6" -> 6 [] c = "7" -> 7
      [] c = "8" -> 8 [] c = "9" -> 9

\* ------------------------------------------------------------------------
\* Inputs: the files the user can pick
\* ------------------------------------------------------------------------
Files == {"a.png", "b.jpg", "c.txt"}

FileType(f) ==
    CASE f = "a.png" -> <<"i", "m", "a", "g", "e", "/", "p", "n", "g">>
      [] f = "b.jpg" -> <<"i", "m", "a", "g", "e", "/", "j", "p", "e", "g">>
      [] f = "c.txt" -> <<"t", "e", "x", "t", "/", "p", "l", "a", "i", "n">>

ImagePrefix == <<"i", "m", "a", "g", "e", "/">>

\* ------------------------------------------------------------------------
\* Inputs: what the classification exchange can deliver
\* ------------------------------------------------------------------------
\* A JavaScript object is a function from the names of the properties it has
\* to their values; reading a property it lacks gives undefined.
Get(o, k) == IF k \in DOMAIN o THEN o[k] ELSE undefined

EmptyObject == [k \in {} |-> undefined]

\* The object with the one property k, or without it when v is undefined.
Prop(k, v) == IF v = undefined THEN EmptyObject ELSE k :> v

\* A verdict field of the parsed response: one of the two literals of the
\* declared enum, another string, or missing (the declared schema lists no
\* required field, and JSON.parse checks no schema).
VerdictValues == {"pass", "found", "maybe", undefined}

\* The four explanation fields: all present or all missing.
DescriptionSets ==
    { ("copyrightDescription" :> "copyright text") @@ ("zedgeViolationDescription" :> "zedge text")
        @@ ("womenPolicyDescription" :> "women text") @@ ("kidsViolationDescription" :> "kids text"),
      EmptyObject }

\* The three metadata fields of the payload: all, the title alone, none.
MetadataSets ==
    { ("title" :> "A fox") @@ ("imageDescription" :> "A fox in a field")
        @@ ("tags" :> <<"fox", "field">>),
      ("title" :> "X"),
      EmptyObject }

VerdictFields == {"status", "zedgeViolationStatus", "womenPolicyStatus", "kidsViolationStatus"}

\* The four verdict fields of a response, of which at most MaxOffEnum are
\* missing or outside the enum.
VerdictSets ==
    { v \in [VerdictFields -> VerdictValues] :
        Cardinality({f \in VerdictFields : v[f] \notin {"pass", "found"}}) <= MaxOffEnum }

\* The objects JSON.parse can return for response.text.
ParsedJsons ==
    { Prop("status", v["status"]) @@ Prop("zedgeViolationStatus", v["zedgeViolationStatus"])
        @@ Prop("womenPolicyStatus", v["womenPolicyStatus"])
        @@ Prop("kidsViolationStatus", v["kidsViolationStatus"]) @@ d @@ m :
      v \in VerdictSets, d \in DescriptionSets, m \in MetadataSets }

\* The ways the exchange throws inside the try block, as e.message: the file
\* reader fails; generateContent rejects; JSON.parse throws on text that is
\* not JSON; JSON.parse returns null and reading parsedJson.status throws.
ReadFailure == "read failed"

AnalysisFailures == {"request failed", "Unexpected token", "Cannot read properties of null"}

\* `An error occurred during AI analysis: ${e.message}`
AnalysisErrorMessage(message) ==
    CASE message = "read failed" -> "An error occurred during AI analysis: read failed"
      [] message = "request failed" -> "An error occurred during AI analysis: request failed"
      [] message = "Unexpected token" -> "An error occurred during AI analysis: Unexpected token"
      [] message = "Cannot read properties of null" ->
            "An error occurred during AI analysis: Cannot read properties of null"

\* ------------------------------------------------------------------------
\* Inputs: what the speech exchange can deliver
\* ------------------------------------------------------------------------
\* The mimeType of the inline part, when it has one:
\* "audio/L16;codec=pcm;rate=24000", "audio/L16" and "text/plain".
MimeWithRate ==
    <<"a", "u", "d", "i", "o", "/", "L", "1", "6", ";", "c", "o", "d", "e", "c", "=",
      "p", "c", "m", ";", "r", "a", "t", "e", "=", "2", "4", "0", "0", "0">>

MimeWithoutRate == <<"a", "u", "d", "i", "o", "/", "L", "1", "6">>

MimeNotAudio == <<"t", "e", "x", "t", "/", "p", "l", "a", "i", "n">>

AudioPrefix == <<"a", "u", "d", "i", "o", "/">>

\* result?.candidates?.[0]?.content?.parts?.[0]?.inlineData: the objects the
\* response body can hold there (data is the base64 payload).
InlineDatas ==
    { Prop("data", d) @@ m :
      d \in {"AAD/fw==", undefined},
      m \in {"mimeType" :> MimeWithRate, "mimeType" :> MimeWithoutRate,
             "mimeType" :> MimeNotAudio, EmptyObject} }

\* The ways the exchange throws before the body is read, as e.message: fetch
\* rejects; the status is not ok; response.json() rejects.
SpeechFailures == {"Failed to fetch", "API call failed with status: 500. Response: error",
                   "Unexpected end of JSON input"}

\* `An error occurred during TTS generation: ${e.message}`
SpeechErrorMessage(message) ==
    CASE message = "Failed to fetch" -> "An error occurred during TTS generation: Failed to fetch"
      [] message = "API call failed with status: 500. Response: error" ->
            "An error occurred during TTS generation: API call failed with status: 500. Response: error"
      [] message = "Unexpected end of JSON input" ->
            "An error occurred during TTS generation: Unexpected end of JSON input"
      [] message = "Sample rate not found in MIME type" ->
            "An error occurred during TTS generation: Sample rate not found in MIME type"
      [] message = "Failed to get audio data from the model." ->
            "An error occurred during TTS generation: Failed to get audio data from the model."

\* `Failed to play audio: ${e.message}`, for the rejection of audio.play().
PlayErrorMessage == "Failed to play audio: NotAllowedError"

\* mimeType.match(/rate=(\d+)/): the places where "rate=" and a digit stand.
RateMatches(s) ==
    { i \in 1..Len(s) :
        /\ i + 5 <= Len(s)
        /\ SubSeq(s, i, i + 4) = <<"r", "a", "t", "e", "=">>
        /\ s[i + 5] \in Digits }

\* The first group of the leftmost match: the longest run of digits there.
RateDigits(s) ==
    LET i == CHOOSE m \in RateMatches(s) : \A n \in RateMatches(s) : m <= n
        last == CHOOSE k \in (i + 5)..Len(s) :
                    /\ \A j \in (i + 5)..k : s[j] \in Digits
                    /\ k = Len(s) \/ s[k + 1] \notin Digits
    IN SubSeq(s, i + 5, last)

\* parseInt(digits, 10)
RECURSIVE ParseInt(_)
ParseInt(digits) ==
    IF digits = <<>> THEN 0
    ELSE 10 * ParseInt(SubSeq(digits, 1, Len(digits) - 1)) + DigitValue(digits[Len(digits)])

\* ------------------------------------------------------------------------
\* fileToBase64 and base64ToArrayBuffer
\* ------------------------------------------------------------------------
Base64Alphabet ==
    <<"A", "B", "C", "D", "E", "F", "G", "H", "I", "J", "K", "L", "M", "N", "O", "P",
      "Q", "R", "S", "T", "U", "V", "W", "X", "Y", "Z", "a", "b", "c", "d", "e", "f",
      "g", "h", "i", "j", "k", "l", "m", "n", "o", "p", "q", "r", "s", "t", "u", "v",
      "w", "x", "y", "z", "0", "1", "2", "3", "4", "5", "6", "7", "8", "9", "+", "/">>

Base64Char(sextet) == Base64Alphabet[sextet + 1]

IsBase64Char(c) == \E i \in 1..64 : Base64Alphabet[i] = c

Base64Sextet(c) == (CHOOSE i \in 1..64 : Base64Alphabet[i] = c) - 1

\* The base64 text of a byte sequence, as FileReader.readAsDataURL writes it:
\* four characters for three bytes, the last group padded with "=".
RECURSIVE Base64Encode(_)
Base64Encode(bytes) ==
    IF Len(bytes) = 0 THEN <<>>
    ELSE IF Len(bytes) = 1
    THEN <<Base64Char(bytes[1] \div 4), Base64Char((bytes[1] % 4) * 16), "=", "=">>
    ELSE IF Len(bytes) = 2
    THEN <<Base64Char(bytes[1] \div 4),
           Base64Char((bytes[1] % 4) * 16 + bytes[2] \div 16),
           Base64Char((bytes[2] % 16) * 4), "=">>
    ELSE <<Base64Char(bytes[1] \div 4),
           Base64Char((bytes[1] % 4) * 16 + bytes[2] \div 16),
           Base64Char((bytes[2] % 16) * 4 + bytes[3] \div 64),
           Base64Char(bytes[3] % 64)>>
         \o Base64Encode(SubSeq(bytes, 4, Len(bytes)))

\* reader.result of readAsDataURL: "data:<type>;base64,<base64 of the bytes>".
DataUrl(file) ==
    <<"d", "a", "t", "a", ":">> \o file.type
        \o <<";", "b", "a", "s", "e", "6", "4", ",">> \o Base64Encode(file.bytes)

\* String.prototype.split(','): the pieces between the commas.
RECURSIVE SplitComma(_)
SplitComma(s) ==
    IF \A i \in 1..Len(s) : s[i] # ","
    THEN <<s>>
    ELSE LET first == CHOOSE i \in 1..Len(s) :
                        /\ s[i] = ","
                        /\ \A j \in 1..(i - 1) : s[j] # ","
         IN <<SubSeq(s, 1, first - 1)>> \o SplitComma(SubSeq(s, first + 1, Len(s)))

\* Variant: the promise resolves with the whole data URL.
fileToBase64_WholeUrl(file) == DataUrl(file)

\* What the promise of fileToBase64 resolves with: (reader.result).split(',')[1]
fileToBase64(file) ==
    IF Len(SplitComma(DataUrl(file))) >= 2 THEN SplitComma(DataUrl(file))[2] ELSE undefined

\* atob without the padding it accepts: one or two "=" at the end of a text
\* whose length is a multiple of four.
StripPadding(s) ==
    IF Len(s) % 4 = 0 /\ Len(s) >= 2 /\ s[Len(s)] = "=" /\ s[Len(s) - 1] = "="
    THEN SubSeq(s, 1, Len(s) - 2)
    ELSE IF Len(s) % 4 = 0 /\ Len(s) >= 1 /\ s[Len(s)] = "="
    THEN SubSeq(s, 1, Len(s) - 1)
    ELSE s

\* atob throws InvalidCharacterError (the texts here hold no whitespace).
AtobThrows(s) ==
    \/ Len(StripPadding(s)) % 4 = 1
    \/ \E i \in 1..Len(StripPadding(s)) : ~IsBase64Char(StripPadding(s)[i])

\* The character codes of the binary string of unpadded base64 text: three
\* for four characters; a last group of two or three characters gives one or
\* two, the bits left over being dropped.
RECURSIVE DecodeSextets(_)
DecodeSextets(s) ==
    IF Len(s) < 2 THEN <<>>
    ELSE LET s1 == Base64Sextet(s[1])
             s2 == Base64Sextet(s[2])
         IN IF Len(s) = 2 THEN <<s1 * 4 + s2 \div 16>>
            ELSE LET s3 == Base64Sextet(s[3])
                 IN IF Len(s) = 3
                    THEN <<s1 * 4 + s2 \div 16, (s2 % 16) * 16 + s3 \div 4>>
                    ELSE <<s1 * 4 + s2 \div 16, (s2 % 16) * 16 + s3 \div 4,
                           (s3 % 4) * 64 + Base64Sextet(s[4])>>
                         \o DecodeSextets(SubSeq(s, 5, Len(s)))

\* atob(base64), as the codes of the characters of binaryString.
atob(s) == DecodeSextets(StripPadding(s))

\* The bytes of the buffer base64ToArrayBuffer returns: bytes[i] is
\* binaryString.charCodeAt(i), stored in a Uint8Array.
base64ToArrayBuffer(base64) ==
    [i \in 1..Len(atob(base64)) |-> atob(base64)[i] % 256]

\* Inputs: the files handed to fileToBase64.
ByteValues == {0, 1, 44, 127, 128, 255}

ByteSeqs == UNION { [1..n -> ByteValues] : n \in 0..MaxBytes }

BinaryFiles == { [type |-> FileType(f), bytes |-> b] : f \in Files, b \in ByteSeqs }

\* ------------------------------------------------------------------------
\* pcmToWav
\* ------------------------------------------------------------------------
\* A non-negative integer that may exceed the range of a 32-bit field, held
\* as hi * 65536 + lo with lo in 0..65535.
Wide(n) == [hi |-> n \div 65536, lo |-> n % 65536]

\* k * w for a small factor k.
WideTimes(k, w) ==
    [hi |-> k * w.hi + (k * w.lo) \div 65536, lo |-> (k * w.lo) % 65536]

Reverse(bytes) == [i \in 1..Len(bytes) |-> bytes[Len(bytes) + 1 - i]]

\* The four bytes DataView.setUint32 writes: the value modulo 2^32, most
\* significant byte first unless littleEndian.
Uint32Bytes(w, littleEndian) ==
    LET bigEndian == <<(w.hi \div 256) % 256, w.hi % 256, w.lo \div 256, w.lo % 256>>
    IN IF littleEndian THEN Reverse(bigEndian) ELSE bigEndian

\* The two bytes DataView.setUint16 writes.
Uint16Bytes(value, littleEndian) ==
    LET bigEndian == <<(value \div 256) % 256, value % 256>>
    IN IF littleEndian THEN Reverse(bigEndian) ELSE bigEndian

\* Variant: the sample is written most significant byte first.
Int16Bytes_BigEndian(value, littleEndian) ==
    <<(((value + 65536) % 65536) \div 256) % 256, ((value + 65536) % 65536) % 256>>

\* The two bytes DataView.setInt16 writes: the two's complement of the value.
Int16Bytes(value, littleEndian) == Uint16Bytes((value + 65536) % 65536, littleEndian)

\* The buffer with the given bytes written from byteOffset on.
SetBytes(buffer, byteOffset, bytes) ==
    [i \in 1..Len(buffer) |->
        IF i - 1 >= byteOffset /\ i - 1 < byteOffset + Len(bytes)
        THEN bytes[i - byteOffset]
        ELSE buffer[i]]

numChannels == 1
bitsPerSample == 16

\* Variant: the byte rate is computed from the bits, not the bytes, of a sample.
ByteRate_InBits(sampleRate) == WideTimes(numChannels * bitsPerSample, sampleRate)

\* numChannels * bitsPerSample / 8 * sampleRate
ByteRate(sampleRate) == WideTimes((numChannels * bitsPerSample) \div 8, sampleRate)

blockAlign == (numChannels * bitsPerSample) \div 8

\* The loop that writes the samples, from the i-th on (i counts from 0).
RECURSIVE WriteSamples(_, _, _)
WriteSamples(view, samples, i) ==
    IF i >= Len(samples) THEN view
    ELSE WriteSamples(SetBytes(view, 44 + i * 2, Int16Bytes(samples[i + 1], TRUE)),
                      samples, i + 1)

\* The bytes of the blob pcmToWav returns; sampleRate is a Wide.
pcmToWav(samples, sampleRate) ==
    LET buffer == [i \in 1..(44 + Len(samples) * 2) |-> 0]
        v1 == SetBytes(buffer, 0, Uint32Bytes(Wide(1380533830), FALSE))
        v2 == SetBytes(v1, 4, Uint32Bytes(Wide(36 + Len(samples) * 2), TRUE))
        v3 == SetBytes(v2, 8, Uint32Bytes(Wide(1463899717), FALSE))
        v4 == SetBytes(v3, 12, Uint32Bytes(Wide(1718449184), FALSE))
        v5 == SetBytes(v4, 16, Uint32Bytes(Wide(16), TRUE))
        v6 == SetBytes(v5, 20, Uint16Bytes(1, TRUE))
        v7 == SetBytes(v6, 22, Uint16Bytes(numChannels, TRUE))
        v8 == SetBytes(v7, 24, Uint32Bytes(sampleRate, TRUE))
        v9 == SetBytes(v8, 28, Uint32Bytes(ByteRate(sampleRate), TRUE))
        v10 == SetBytes(v9, 32, Uint16Bytes(blockAlign, TRUE))
        v11 == SetBytes(v10, 34, Uint16Bytes(bitsPerSample, TRUE))
        v12 == SetBytes(v11, 36, Uint32Bytes(Wide(1684108385), FALSE))
        v13 == SetBytes(v12, 40, Uint32Bytes(Wide(Len(samples) * 2), TRUE))
    IN WriteSamples(v13, samples, 0)

\* Inputs: the elements an Int16Array can hold, and the sample sequences.
Int16Values == {-32768, -1000, -1, 0, 1000, 32767}

SampleSeqs == UNION { [1..n -> Int16Values] : n \in 0..MaxSamples }

\* Inputs: the sample rates parseInt can return for rate=<digits>, above 0:
\* 1, 8000, 24000, 44100, 2^31 - 1, 2^31 and 2^32 + 24000.
SampleRates ==
    { Wide(1), Wide(8000), Wide(24000), Wide(44100), Wide(2147483647),
      [hi |-> 32768, lo |-> 0], [hi |-> 65536, lo |-> 24000] }

\* The pool URL.createObjectURL draws from.
ObjectUrlPool == {"blob:1", "blob:2", "blob:3", "blob:4", "blob:5", "blob:6"}

\* ------------------------------------------------------------------------
\* State
\* ------------------------------------------------------------------------
VARIABLES
    imageFile, imageUrl,
    copyrightStatus, copyrightDescription,
    zedgeViolationStatus, zedgeViolationDescription,
    womenPolicyStatus, womenPolicyDescription,
    kidsViolationStatus, kidsViolationDescription,
    title, imageDescription, tags,
    loading, error, isSpeaking,
    isModalOpen, modalContent,
    apiKey,        \* process.env.API_KEY, fixed for the life of the page
    analyses,      \* pending analyzeImageWithAI invocations: <<[file, stage]>>
    speeches,      \* pending handleTextToSpeech invocations: <<[text]>>
    audios,        \* Audio elements created and not yet ended: {[url, sampleRate, state]}
    objectUrls,    \* object URLs created and not yet revoked
    resultOf,      \* history: the analysis whose response populated the results shown
    pc,            \* "app" for the component; the step reached when one of the
                   \* helper functions is applied on its own
    binaryData,    \* fileToBase64: the bytes of the file
    base64String,  \* fileToBase64: the string it resolves with
    decodedBytes,  \* base64ToArrayBuffer: the bytes of the buffer it returns
    pcmData,       \* pcmToWav: the samples
    wavRate,       \* pcmToWav: the sample rate
    wavBytes       \* pcmToWav: the bytes of the blob it returns

verdictVars == <<copyrightStatus, zedgeViolationStatus, womenPolicyStatus, kidsViolationStatus>>
descriptionVars == <<copyrightDescription, zedgeViolationDescription,
                     womenPolicyDescription, kidsViolationDescription>>
metadataVars == <<title, imageDescription, tags>>
resultVars == <<verdictVars, descriptionVars, metadataVars, error, resultOf>>
imageVars == <<imageFile, imageUrl>>
modalVars == <<isModalOpen, modalContent>>
speechVars == <<isSpeaking, speeches, audios>>
helperVars == <<pc, binaryData, base64String, decodedBytes, pcmData, wavRate, wavBytes>>
\* What no step of the component changes.
fixedVars == <<apiKey, helperVars>>

vars == <<imageVars, resultVars, loading, modalVars, fixedVars, analyses, speechVars, objectUrls>>

NoResult == [file |-> null, parsedJson |-> EmptyObject]

\* ------------------------------------------------------------------------
\* Helpers of the component
\* ------------------------------------------------------------------------
showModal(message) ==
    /\ modalContent' = message
    /\ isModalOpen' = TRUE

closeModal ==
    /\ isModalOpen
    /\ isModalOpen' = FALSE
    /\ modalContent' = ""
    /\ UNCHANGED <<imageVars, resultVars, loading, fixedVars, analyses, speechVars, objectUrls>>

\* Variant: the error message survives the reset.
resetState_KeepError ==
    /\ copyrightStatus' = null
    /\ copyrightDescription' = null
    /\ zedgeViolationStatus' = null
    /\ zedgeViolationDescription' = null
    /\ womenPolicyStatus' = null
    /\ womenPolicyDescription' = null
    /\ kidsViolationStatus' = null
    /\ kidsViolationDescription' = null
    /\ title' = null
    /\ imageDescription' = null
    /\ tags' = <<>>
    /\ UNCHANGED error
    /\ resultOf' = NoResult

resetState ==
    /\ copyrightStatus' = null
    /\ copyrightDescription' = null
    /\ zedgeViolationStatus' = null
    /\ zedgeViolationDescription' = null
    /\ womenPolicyStatus' = null
    /\ womenPolicyDescription' = null
    /\ kidsViolationStatus' = null
    /\ kidsViolationDescription' = null
    /\ title' = null
    /\ imageDescription' = null
    /\ tags' = <<>>
    /\ error' = null
    /\ resultOf' = NoResult

\* URL.createObjectURL: a URL that is not live at the moment.
FreshUrl == CHOOSE u \in ObjectUrlPool : u \notin objectUrls

\* ------------------------------------------------------------------------
\* Image selection and Clear
\* ------------------------------------------------------------------------
\* Variant: a file of any type is taken as the image.
handleFileSelect_AnyType(file) ==
    IF file # null
    THEN /\ Cardinality(objectUrls) < MaxUrls
         /\ resetState
         /\ imageFile' = file
         /\ imageUrl' = FreshUrl
         /\ objectUrls' = objectUrls \cup {FreshUrl}
         /\ UNCHANGED <<loading, modalVars, fixedVars, analyses, speechVars>>
    ELSE UNCHANGED vars

handleFileSelect(file) ==
    IF file # null /\ StartsWith(FileType(file), ImagePrefix)
    THEN /\ Cardinality(objectUrls) < MaxUrls
         /\ resetState
         /\ imageFile' = file
         /\ imageUrl' = FreshUrl
         /\ objectUrls' = objectUrls \cup {FreshUrl}
         /\ UNCHANGED <<loading, modalVars, fixedVars, analyses, speechVars>>
    ELSE UNCHANGED vars

\* handleImageUpload and handleDrop: both hand the first file, or null, to
\* handleFileSelect.
SelectFile == \E file \in Files \cup {null} : handleFileSelect(file)

\* Variant: Clear also ends the loading state.
handleClear_StopsLoading ==
    /\ Truthy(imageUrl)
    /\ objectUrls' = IF Truthy(imageUrl) /\ Truthy(imageFile)
                     THEN objectUrls \ {imageUrl}
                     ELSE objectUrls
    /\ imageFile' = null
    /\ imageUrl' = null
    /\ resetState
    /\ loading' = FALSE
    /\ UNCHANGED <<modalVars, fixedVars, analyses, speechVars>>

\* The Clear button is rendered only while imageUrl is set.
handleClear ==
    /\ Truthy(imageUrl)
    /\ objectUrls' = IF Truthy(imageUrl) /\ Truthy(imageFile)
                     THEN objectUrls \ {imageUrl}
                     ELSE objectUrls
    /\ imageFile' = null
    /\ imageUrl' = null
    /\ resetState
    /\ UNCHANGED <<loading, modalVars, fixedVars, analyses, speechVars>>

\* ------------------------------------------------------------------------
\* Analysis: analyzeImageWithAI
\* ------------------------------------------------------------------------
\* A sequence without its i-th element.
RemoveAt(seq, i) == SubSeq(seq, 1, i - 1) \o SubSeq(seq, i + 1, Len(seq))

\* Variant: the button is disabled only for want of an image.
AnalysisDisabled_ImageOnly == ~Truthy(imageFile)

\* The disabled attribute of the Analysis button.
AnalysisDisabled == loading \/ ~Truthy(imageFile)

\* Variant: the handler starts the exchange without resetState.
analyzeImageWithAI_NoReset ==
    IF ~Truthy(imageFile)
    THEN /\ showModal("Please upload an image first.")
         /\ UNCHANGED <<imageVars, resultVars, loading, fixedVars, analyses, speechVars, objectUrls>>
    ELSE /\ Len(analyses) < MaxPending
         /\ loading' = TRUE
         /\ analyses' = Append(analyses, [file |-> imageFile, stage |-> "reading"])
         /\ UNCHANGED <<imageVars, resultVars, modalVars, fixedVars, speechVars, objectUrls>>

\* Variant: loading is set before the image is looked at.
analyzeImageWithAI_LoadingFirst ==
    IF ~Truthy(imageFile)
    THEN /\ loading' = TRUE
         /\ showModal("Please upload an image first.")
         /\ UNCHANGED <<imageVars, resultVars, fixedVars, analyses, speechVars, objectUrls>>
    ELSE /\ Len(analyses) < MaxPending
         /\ loading' = TRUE
         /\ resetState
         /\ analyses' = Append(analyses, [file |-> imageFile, stage |-> "reading"])
         /\ UNCHANGED <<imageVars, modalVars, fixedVars, speechVars, objectUrls>>

\* The handler up to its first await (the file read).
analyzeImageWithAI ==
    IF ~Truthy(imageFile)
    THEN /\ showModal("Please upload an image first.")
         /\ UNCHANGED <<imageVars, resultVars, loading, fixedVars, analyses, speechVars, objectUrls>>
    ELSE /\ Len(analyses) < MaxPending
         /\ loading' = TRUE
         /\ resetState
         /\ analyses' = Append(analyses, [file |-> imageFile, stage |-> "reading"])
         /\ UNCHANGED <<imageVars, modalVars, fixedVars, speechVars, objectUrls>>

\* A click on the Analysis button; a disabled button dispatches no click.
ClickAnalysis ==
    /\ ~AnalysisDisabled
    /\ analyzeImageWithAI

\* Variant: a failed exchange leaves loading set.
AnalysisCatch_NoFinally(i, message) ==
    /\ error' = AnalysisErrorMessage(message)
    /\ showModal(AnalysisErrorMessage(message))
    /\ analyses' = RemoveAt(analyses, i)
    /\ UNCHANGED <<imageVars, verdictVars, descriptionVars, metadataVars, resultOf, loading,
                   fixedVars, speechVars, objectUrls>>

\* catch and finally of the handler, for the pending invocation i.
AnalysisCatch(i, message) ==
    /\ error' = AnalysisErrorMessage(message)
    /\ showModal(AnalysisErrorMessage(message))
    /\ loading' = FALSE
    /\ analyses' = RemoveAt(analyses, i)
    /\ UNCHANGED <<imageVars, verdictVars, descriptionVars, metadataVars, resultOf,
                   fixedVars, speechVars, objectUrls>>

\* fileToBase64 resolves: the handler goes on to generateContent and awaits it.
ReadResolved ==
    \E i \in 1..Len(analyses) :
        /\ analyses[i].stage = "reading"
        /\ analyses' = [analyses EXCEPT ![i].stage = "generating"]
        /\ UNCHANGED <<imageVars, resultVars, loading, modalVars, fixedVars, speechVars, objectUrls>>

\* fileToBase64 rejects (reader.onerror).
ReadRejected ==
    \E i \in 1..Len(analyses) :
        /\ analyses[i].stage = "reading"
        /\ AnalysisCatch(i, ReadFailure)

\* Variant: the metadata is guarded by the copyright verdict alone.
AllPass_CopyrightOnly(parsedJson) == Get(parsedJson, "status") = "pass"

\* The test that guards the metadata of the response.
AllPass(parsedJson) ==
    /\ Get(parsedJson, "status") = "pass"
    /\ Get(parsedJson, "zedgeViolationStatus") = "pass"
    /\ Get(parsedJson, "womenPolicyStatus") = "pass"
    /\ Get(parsedJson, "kidsViolationStatus") = "pass"

\* Variant: the tags of the response are dropped.
TagsOrEmpty_AlwaysEmpty(parsedJson) == <<>>

\* parsedJson.tags || []
TagsOrEmpty(parsedJson) ==
    IF "tags" \in DOMAIN parsedJson THEN parsedJson["tags"] ELSE <<>>

\* Variant: verdicts and explanations are recorded only with four "pass".
ApplyResponse_OnlyWhenAllPass(i, parsedJson) ==
    /\ IF AllPass(parsedJson)
       THEN /\ copyrightStatus' = Get(parsedJson, "status")
            /\ copyrightDescription' = Get(parsedJson, "copyrightDescription")
            /\ zedgeViolationStatus' = Get(parsedJson, "zedgeViolationStatus")
            /\ zedgeViolationDescription' = Get(parsedJson, "zedgeViolationDescription")
            /\ womenPolicyStatus' = Get(parsedJson, "womenPolicyStatus")
            /\ womenPolicyDescription' = Get(parsedJson, "womenPolicyDescription")
            /\ kidsViolationStatus' = Get(parsedJson, "kidsViolationStatus")
            /\ kidsViolationDescription' = Get(parsedJson, "kidsViolationDescription")
            /\ title' = Get(parsedJson, "title")
            /\ imageDescription' = Get(parsedJson, "imageDescription")
            /\ tags' = TagsOrEmpty(parsedJson)
       ELSE UNCHANGED <<verdictVars, descriptionVars, metadataVars>>
    /\ resultOf' = [file |-> analyses[i].file, parsedJson |-> parsedJson]
    /\ loading' = FALSE
    /\ analyses' = RemoveAt(analyses, i)
    /\ UNCHANGED <<imageVars, error, modalVars, fixedVars, speechVars, objectUrls>>

\* The handler from JSON.parse's result to the end of the try block, and finally.
ApplyResponse(i, parsedJson) ==
    /\ copyrightStatus' = Get(parsedJson, "status")
    /\ copyrightDescription' = Get(parsedJson, "copyrightDescription")
    /\ zedgeViolationStatus' = Get(parsedJson, "zedgeViolationStatus")
    /\ zedgeViolationDescription' = Get(parsedJson, "zedgeViolationDescription")
    /\ womenPolicyStatus' = Get(parsedJson, "womenPolicyStatus")
    /\ womenPolicyDescription' = Get(parsedJson, "womenPolicyDescription")
    /\ kidsViolationStatus' = Get(parsedJson, "kidsViolationStatus")
    /\ kidsViolationDescription' = Get(parsedJson, "kidsViolationDescription")
    /\ IF AllPass(parsedJson)
       THEN /\ title' = Get(parsedJson, "title")
            /\ imageDescription' = Get(parsedJson, "imageDescription")
            /\ tags' = TagsOrEmpty(parsedJson)
       ELSE UNCHANGED metadataVars
    /\ resultOf' = [file |-> analyses[i].file, parsedJson |-> parsedJson]
    /\ loading' = FALSE
    /\ analyses' = RemoveAt(analyses, i)
    /\ UNCHANGED <<imageVars, error, modalVars, fixedVars, speechVars, objectUrls>>

\* generateContent resolves with text that JSON.parse turns into an object.
\* The client library is not part of the source: what it delivers is not
\* constrained by apiKey here.
ResponseParsed ==
    \E i \in 1..Len(analyses) : \E parsedJson \in ParsedJsons :
        /\ analyses[i].stage = "generating"
        /\ ApplyResponse(i, parsedJson)

\* generateContent rejects, JSON.parse throws, or parsedJson is null.
ResponseFailed ==
    \E i \in 1..Len(analyses) : \E message \in AnalysisFailures :
        /\ analyses[i].stage = "generating"
        /\ AnalysisCatch(i, message)

\* ------------------------------------------------------------------------
\* Speech: handleTextToSpeech
\* ------------------------------------------------------------------------
\* The metadata card, which holds the two speech buttons, is rendered.
MetadataCardShown ==
    /\ copyrightStatus = "pass"
    /\ zedgeViolationStatus = "pass"
    /\ womenPolicyStatus = "pass"
    /\ kidsViolationStatus = "pass"
    /\ Truthy(title)

\* Variant: an accepted call leaves isSpeaking unset.
handleTextToSpeech_FlagNotSet(text) ==
    IF ~Truthy(text) \/ isSpeaking
    THEN UNCHANGED vars
    ELSE IF ~Truthy(apiKey)
    THEN /\ showModal("API key is not configured.")
         /\ isSpeaking' = FALSE
         /\ UNCHANGED <<imageVars, resultVars, loading, fixedVars, analyses, speeches, audios,
                        objectUrls>>
    ELSE /\ Len(speeches) < MaxPending
         /\ isSpeaking' = FALSE
         /\ speeches' = Append(speeches, [text |-> text])
         /\ UNCHANGED <<imageVars, resultVars, loading, modalVars, fixedVars, analyses, audios,
                        objectUrls>>

\* Variant: the request is sent whether or not a credential is configured.
handleTextToSpeech_NoKeyCheck(text) ==
    IF ~Truthy(text) \/ isSpeaking
    THEN UNCHANGED vars
    ELSE /\ Len(speeches) < MaxPending
         /\ isSpeaking' = TRUE
         /\ speeches' = Append(speeches, [text |-> text])
         /\ UNCHANGED <<imageVars, resultVars, loading, modalVars, fixedVars, analyses, audios,
                        objectUrls>>

\* The handler up to its first await (fetch).
handleTextToSpeech(text) ==
    IF ~Truthy(text) \/ isSpeaking
    THEN UNCHANGED vars
    ELSE IF ~Truthy(apiKey)
    THEN /\ showModal("API key is not configured.")
         /\ isSpeaking' = FALSE
         /\ UNCHANGED <<imageVars, resultVars, loading, fixedVars, analyses, speeches, audios,
                        objectUrls>>
    ELSE /\ Len(speeches) < MaxPending
         /\ isSpeaking' = TRUE
         /\ speeches' = Append(speeches, [text |-> text])
         /\ UNCHANGED <<imageVars, resultVars, loading, modalVars, fixedVars, analyses, audios,
                        objectUrls>>

\* A click on the speech button of the title or of the description; both are
\* disabled while isSpeaking.
ClickSpeakTitle ==
    /\ MetadataCardShown
    /\ ~isSpeaking
    /\ handleTextToSpeech(title)

ClickSpeakDescription ==
    /\ MetadataCardShown
    /\ ~isSpeaking
    /\ handleTextToSpeech(imageDescription)

\* Variant: the catch block reports the error and leaves isSpeaking set.
SpeechCatch_FlagKept(i, message) ==
    /\ showModal(SpeechErrorMessage(message))
    /\ speeches' = RemoveAt(speeches, i)
    /\ UNCHANGED <<imageVars, resultVars, loading, fixedVars, analyses, isSpeaking, audios,
                   objectUrls>>

\* Variant: a speech failure is recorded as the analysis error.
SpeechCatch_SetsError(i, message) ==
    /\ showModal(SpeechErrorMessage(message))
    /\ error' = SpeechErrorMessage(message)
    /\ isSpeaking' = FALSE
    /\ speeches' = RemoveAt(speeches, i)
    /\ UNCHANGED <<imageVars, verdictVars, descriptionVars, metadataVars, resultOf, loading,
                   fixedVars, analyses, audios, objectUrls>>

\* catch of the handler, for the pending invocation i.
SpeechCatch(i, message) ==
    /\ showModal(SpeechErrorMessage(message))
    /\ isSpeaking' = FALSE
    /\ speeches' = RemoveAt(speeches, i)
    /\ UNCHANGED <<imageVars, resultVars, loading, fixedVars, analyses, audios, objectUrls>>

\* fetch rejects, the status is not ok, or the body is not JSON.
SpeechFailed ==
    \E i \in 1..Len(speeches) : \E message \in SpeechFailures :
        SpeechCatch(i, message)

\* The handler from response.json()'s result on, for the inline data of the
\* first part: the audio is built, an object URL and an Audio element are
\* created and play() is called; or it throws.
SpeechResponse(i, inlineData) ==
    LET audioData == Get(inlineData, "data")
        hasAudioMime == /\ "mimeType" \in DOMAIN inlineData
                        /\ StartsWith(inlineData["mimeType"], AudioPrefix)
    IN  IF Truthy(audioData) /\ hasAudioMime
        THEN IF RateMatches(inlineData["mimeType"]) = {}
             THEN SpeechCatch(i, "Sample rate not found in MIME type")
             ELSE /\ Cardinality(objectUrls) < MaxUrls
                  /\ objectUrls' = objectUrls \cup {FreshUrl}
                  /\ audios' = audios \cup
                        {[url |-> FreshUrl,
                          sampleRate |-> ParseInt(RateDigits(inlineData["mimeType"])),
                          state |-> "playing"]}
                  /\ speeches' = RemoveAt(speeches, i)
                  /\ UNCHANGED <<imageVars, resultVars, loading, modalVars, fixedVars,
                                 analyses, isSpeaking>>
        ELSE SpeechCatch(i, "Failed to get audio data from the model.")

\* fetch resolves with an ok status and a JSON body.
SpeechResolved ==
    \E i \in 1..Len(speeches) : \E inlineData \in InlineDatas :
        SpeechResponse(i, inlineData)

\* audio.play() rejects: only the modal is shown.
PlayRejected ==
    \E audio \in audios :
        /\ audio.state = "playing"
        /\ showModal(PlayErrorMessage)
        /\ audios' = (audios \ {audio}) \cup {[audio EXCEPT !.state = "failed"]}
        /\ UNCHANGED <<imageVars, resultVars, loading, fixedVars, analyses, isSpeaking, speeches,
                       objectUrls>>

\* Variant: onended clears the flag and keeps the object URL.
PlayEnded_NoRevoke ==
    \E audio \in audios :
        /\ audio.state = "playing"
        /\ isSpeaking' = FALSE
        /\ audios' = audios \ {audio}
        /\ UNCHANGED <<imageVars, resultVars, loading, modalVars, fixedVars, analyses, speeches,
                       objectUrls>>

\* audio.onended: the playback reached its end.
PlayEnded ==
    \E audio \in audios :
        /\ audio.state = "playing"
        /\ isSpeaking' = FALSE
        /\ objectUrls' = objectUrls \ {audio.url}
        /\ audios' = audios \ {audio}
        /\ UNCHANGED <<imageVars, resultVars, loading, modalVars, fixedVars, analyses, speeches>>

\* The component after its first render.
AppInit ==
    /\ imageFile = null
    /\ imageUrl = null
    /\ copyrightStatus = null
    /\ copyrightDescription = null
    /\ zedgeViolationStatus = null
    /\ zedgeViolationDescription = null
    /\ womenPolicyStatus = null
    /\ womenPolicyDescription = null
    /\ kidsViolationStatus = null
    /\ kidsViolationDescription = null
    /\ title = null
    /\ imageDescription = null
    /\ tags = <<>>
    /\ loading = FALSE
    /\ error = null
    /\ isSpeaking = FALSE
    /\ isModalOpen = FALSE
    /\ modalContent = ""
    /\ apiKey \in {"key", undefined}
    /\ analyses = <<>>
    /\ speeches = <<>>
    /\ audios = {}
    /\ objectUrls = {}
    /\ resultOf = NoResult

\* The helper functions not being applied on their own.
HelpersIdle ==
    /\ binaryData = <<>>
    /\ base64String = <<>>
    /\ decodedBytes = <<>>
    /\ pcmData = <<>>
    /\ wavRate = 0
    /\ wavBytes = <<>>

Init ==
    /\ AppInit
    /\ pc = "app"
    /\ HelpersIdle

Next ==
    \/ SelectFile
    \/ handleClear
    \/ closeModal
    \/ ClickAnalysis
    \/ ReadResolved
    \/ ReadRejected
    \/ ResponseParsed
    \/ ResponseFailed
    \/ ClickSpeakTitle
    \/ ClickSpeakDescription
    \/ SpeechFailed
    \/ SpeechResolved
    \/ PlayRejected
    \/ PlayEnded

Spec == Init /\ [][Next]_vars

\* The continuations of settled promises and the events of the media element
\* are run by the event loop; the user's own actions are under no obligation.
FairSpec ==
    /\ Spec
    /\ WF_vars(ReadResolved \/ ReadRejected)
    /\ WF_vars(ResponseParsed \/ ResponseFailed)
    /\ WF_vars(SpeechFailed \/ SpeechResolved)
    /\ WF_vars(PlayRejected \/ PlayEnded)

\* ------------------------------------------------------------------------
\* The handlers called past the buttons
\* ------------------------------------------------------------------------
\* analyzeImageWithAI called while no image is selected. The Analysis button is
\* disabled in that state, so the App never makes this call through a click.
AnalyzeWithoutImage ==
    /\ ~Truthy(imageFile)
    /\ analyzeImageWithAI

HandlerNext ==
    \/ SelectFile
    \/ handleClear
    \/ closeModal
    \/ ClickAnalysis
    \/ AnalyzeWithoutImage
    \/ ReadResolved
    \/ ReadRejected
    \/ ResponseParsed
    \/ ResponseFailed
    \/ ClickSpeakTitle
    \/ ClickSpeakDescription
    \/ SpeechFailed
    \/ SpeechResolved
    \/ PlayRejected
    \/ PlayEnded

HandlerSpec == Init /\ [][HandlerNext]_vars

\* ------------------------------------------------------------------------
\* pcmToWav applied on its own
\* ------------------------------------------------------------------------
WavInit ==
    /\ AppInit
    /\ pc = "start"
    /\ binaryData = <<>>
    /\ base64String = <<>>
    /\ decodedBytes = <<>>
    /\ pcmData \in SampleSeqs
    /\ wavRate \in SampleRates
    /\ wavBytes = <<>>

BuildWav ==
    /\ pc = "start"
    /\ wavBytes' = pcmToWav(pcmData, wavRate)
    /\ pc' = "built"
    /\ UNCHANGED <<imageVars, resultVars, loading, modalVars, apiKey, analyses, speechVars,
                   objectUrls, binaryData, base64String, decodedBytes, pcmData, wavRate>>

WavSpec == WavInit /\ [][BuildWav]_vars

\* ------------------------------------------------------------------------
\* fileToBase64 and base64ToArrayBuffer applied on their own
\* ------------------------------------------------------------------------
CodecInit ==
    /\ AppInit
    /\ pc = "start"
    /\ binaryData \in BinaryFiles
    /\ base64String = <<>>
    /\ decodedBytes = <<>>
    /\ pcmData = <<>>
    /\ wavRate = 0
    /\ wavBytes = <<>>

\* reader.onload: the promise of fileToBase64 resolves.
EncodeFile ==
    /\ pc = "start"
    /\ base64String' = fileToBase64(binaryData)
    /\ pc' = "encoded"
    /\ UNCHANGED <<imageVars, resultVars, loading, modalVars, apiKey, analyses, speechVars,
                   objectUrls, binaryData, decodedBytes, pcmData, wavRate, wavBytes>>

\* base64ToArrayBuffer applied to that string: it returns, or atob throws.
DecodeString ==
    /\ pc = "encoded"
    /\ IF AtobThrows(base64String)
       THEN /\ pc' = "threw"
            /\ UNCHANGED decodedBytes
       ELSE /\ pc' = "decoded"
            /\ decodedBytes' = base64ToArrayBuffer(base64String)
    /\ UNCHANGED <<imageVars, resultVars, loading, modalVars, apiKey, analyses, speechVars,
                   objectUrls, binaryData, base64String, pcmData, wavRate, wavBytes>>

CodecNext ==
    \/ EncodeFile
    \/ DecodeString

CodecSpec == CodecInit /\ [][CodecNext]_vars

\* ------------------------------------------------------------------------
\* Properties
\* ------------------------------------------------------------------------
AllFourPass ==
    /\ copyrightStatus = "pass"
    /\ zedgeViolationStatus = "pass"
    /\ womenPolicyStatus = "pass"
    /\ kidsViolationStatus = "pass"

AllUnevaluated ==
    /\ copyrightStatus = null
    /\ zedgeViolationStatus = null
    /\ womenPolicyStatus = null
    /\ kidsViolationStatus = null

AllEvaluated ==
    /\ copyrightStatus \in {"pass", "found"}
    /\ zedgeViolationStatus \in {"pass", "found"}
    /\ womenPolicyStatus \in {"pass", "found"}
    /\ kidsViolationStatus \in {"pass", "found"}

NoExplanations ==
    /\ copyrightDescription = null
    /\ zedgeViolationDescription = null
    /\ womenPolicyDescription = null
    /\ kidsViolationDescription = null

MetadataPresent == Truthy(title) \/ Truthy(imageDescription) \/ tags # <<>>

\* The results shown were populated from a response.
ResponseApplied == resultOf.file # null

\* The response the results were populated from has a verdict "found".
FoundInResponse ==
    /\ ResponseApplied
    /\ \E f \in VerdictFields : Get(resultOf.parsedJson, f) = "found"

\* C1: metadata (title, description, tags) is non-empty only if all four
\* verdicts are "pass"; after an analysis whose response has a verdict "found"
\* the metadata is empty, whatever the payload carried and whatever an earlier
\* analysis left.
C1_MetadataOnlyIfAllPass ==
    /\ MetadataPresent => AllFourPass
    /\ FoundInResponse => ~MetadataPresent

\* A response with a verdict "found" whose payload carried a title was applied.
C1_Witness ==
    /\ FoundInResponse
    /\ "title" \in DOMAIN resultOf.parsedJson
    /\ ~MetadataPresent
    /\ ~AllUnevaluated

\* C2: at no point are two classification requests outstanding; an
\* outstanding one keeps loading true.
C2_OneAnalysisAtATime ==
    /\ Len(analyses) <= 1
    /\ analyses # <<>> => loading

\* A request is outstanding while an image is selected.
C2_Witness ==
    /\ Len(analyses) = 1
    /\ analyses[1].stage = "generating"
    /\ Truthy(imageFile)

\* A speech operation has not completed: its request is outstanding or its
\* playback has not ended.
SpeechInProgress ==
    \/ speeches # <<>>
    \/ \E audio \in audios : audio.state = "playing"

\* C3: while a speech operation has not completed the in-flight flag is set,
\* so that a further call is refused, and no step issues a second request or
\* starts a second playback.
C3_SpeakRefusedWhileInProgress ==
    /\ SpeechInProgress => isSpeaking
    /\ Len(speeches) + Cardinality({audio \in audios : audio.state = "playing"}) <= 1

\* A speech is in progress while both speech buttons are rendered, with
\* different texts.
C3_Witness ==
    /\ SpeechInProgress
    /\ MetadataCardShown
    /\ Truthy(imageDescription)
    /\ imageDescription # title

PlaybackStartFailed == \E audio \in audios : audio.state = "failed"

\* C4: once playback has failed to start, a state with isSpeaking = false is
\* reached.
C4_FlagClearedAfterPlayFailure == PlaybackStartFailed ~> ~isSpeaking

WellShaped(parsedJson) ==
    \A f \in VerdictFields : Get(parsedJson, f) \in {"pass", "found"}

\* C5: a response that is not of the expected shape populates no verdict: the
\* results shown come from well-shaped responses only.
C5_MalformedResponseRejected == ResponseApplied => WellShaped(resultOf.parsedJson)

\* C6: a failed analysis sets the error and leaves all four verdicts
\* unevaluated, all explanations absent and the metadata empty.
C6_FailureLeavesResetState ==
    [][(ReadRejected \/ ResponseFailed) =>
        (error # null /\ AllUnevaluated /\ NoExplanations /\ ~MetadataPresent)']_vars

\* A failure after an exchange, with the error shown and no result.
C6_Witness ==
    /\ error # null
    /\ ~loading
    /\ AllUnevaluated
    /\ NoExplanations
    /\ ~MetadataPresent

\* C7: the four verdicts are all unevaluated or all evaluated.
C7_VerdictsAtomic == AllUnevaluated \/ AllEvaluated

\* C8: evaluated verdicts or metadata imply that an image is selected and
\* that they were computed for it.
C8_ResultsBelongToSelectedImage ==
    (~AllUnevaluated \/ MetadataPresent) =>
        (Truthy(imageFile) /\ resultOf.file = imageFile)

\* C9: the only live object URLs are the one of the selected image and the
\* one of a playback in progress.
C9_NoLeakedObjectUrls ==
    objectUrls = (IF Truthy(imageUrl) THEN {imageUrl} ELSE {})
                    \cup {audio.url : audio \in {a \in audios : a.state = "playing"}}

\* A step that ends analyze in an error.
AnalysisErrorStep == ReadRejected \/ ResponseFailed

\* A step that ends speak in an error: missing credential, failed exchange,
\* malformed payload, or playback that fails to start.
SpeechErrorStep ==
    \/ ClickSpeakTitle /\ ~Truthy(apiKey)
    \/ ClickSpeakDescription /\ ~Truthy(apiKey) /\ Truthy(imageDescription)
    \/ SpeechFailed
    \/ SpeechResolved /\ UNCHANGED audios
    \/ PlayRejected

\* C10: every error outcome leaves the busy flag of its operation cleared, so
\* that the operation can be triggered again.
C10_UsableAfterError ==
    [][/\ AnalysisErrorStep => ~loading'
       /\ SpeechErrorStep => ~isSpeaking']_vars

\* A call of speak that passes the guard of the handler.
SpeakAccepted ==
    \/ ClickSpeakTitle
    \/ ClickSpeakDescription /\ Truthy(imageDescription)

\* C11: when speak is accepted and no credential is configured, the
\* configuration error is shown, isSpeaking is false after the step and no
\* speech request is issued.
C11_MissingCredential ==
    [][(SpeakAccepted /\ ~Truthy(apiKey)) =>
        /\ isModalOpen'
        /\ modalContent' = "API key is not configured."
        /\ ~isSpeaking'
        /\ speeches' = speeches
        /\ audios' = audios]_vars

\* The configuration error is shown.
C11_Witness ==
    /\ ~Truthy(apiKey)
    /\ isModalOpen
    /\ modalContent = "API key is not configured."
    /\ ~isSpeaking
    /\ speeches = <<>>

\* The inline data lacks the payload, or its media type is not an audio type,
\* or the media type has no rate=<digits> parameter.
Malformed(inlineData) ==
    \/ ~Truthy(Get(inlineData, "data"))
    \/ "mimeType" \notin DOMAIN inlineData
    \/ ~StartsWith(inlineData["mimeType"], AudioPrefix)
    \/ RateMatches(inlineData["mimeType"]) = {}

\* The speech exchange fails, or its response is malformed.
SpeechExchangeFails ==
    \/ SpeechFailed
    \/ \E i \in 1..Len(speeches) : \E inlineData \in InlineDatas :
        Malformed(inlineData) /\ SpeechResponse(i, inlineData)

SpeechErrorMessages ==
    { SpeechErrorMessage(message) :
        message \in SpeechFailures \cup {"Sample rate not found in MIME type",
                                         "Failed to get audio data from the model."} }

\* C12: a failed speech exchange or a malformed speech response shows a
\* descriptive error, starts no playback, creates no object URL and clears
\* isSpeaking.
C12_SpeechFailureHandled ==
    [][SpeechExchangeFails =>
        /\ isModalOpen'
        /\ modalContent' \in SpeechErrorMessages
        /\ ~isSpeaking'
        /\ audios' = audios
        /\ objectUrls' = objectUrls]_vars

\* A malformed response was reported, with the results still shown.
C12_Witness ==
    /\ isModalOpen
    /\ modalContent = SpeechErrorMessage("Sample rate not found in MIME type")
    /\ ~isSpeaking
    /\ speeches = <<>>
    /\ audios = {}
    /\ MetadataCardShown

\* C13: the end of a playback clears isSpeaking and revokes the object URL of
\* that playback; with a credential configured, isSpeaking is set by the
\* accepted call and stays set for as long as the request or the playback
\* goes on.
C13_FlagHeldUntilPlaybackEnds ==
    [][/\ (SpeakAccepted /\ Truthy(apiKey)) => isSpeaking'
       /\ (SpeechInProgress /\ SpeechInProgress') => isSpeaking'
       /\ PlayEnded => (/\ ~isSpeaking'
                        /\ \A audio \in audios \ audios' : audio.url \notin objectUrls')]_vars

\* A playback is going on, its object URL live and the flag set.
C13_Witness ==
    /\ isSpeaking
    /\ speeches = <<>>
    /\ \E audio \in audios : audio.state = "playing" /\ audio.url \in objectUrls

\* The signed 16-bit integer whose little-endian bytes are low, high.
Int16OfBytes(low, high) ==
    IF low + 256 * high >= 32768 THEN low + 256 * high - 65536 ELSE low + 256 * high

\* C14: the buffer has 44 + 2 * len(S) bytes, and from offset 44 on it holds
\* the samples in order, each as a signed little-endian 16-bit integer; the
\* samples 0, 1000, -1000 give the body 00 00, E8 03, 18 FC.
C14_WavBody ==
    pc = "built" =>
        /\ Len(wavBytes) = 44 + 2 * Len(pcmData)
        /\ \A i \in 1..Len(wavBytes) : wavBytes[i] \in 0..255
        /\ \A i \in 1..Len(pcmData) :
            Int16OfBytes(wavBytes[43 + 2 * i], wavBytes[44 + 2 * i]) = pcmData[i]
        /\ pcmData = <<0, 1000, -1000>> =>
            SubSeq(wavBytes, 45, 50) = <<0, 0, 232, 3, 24, 252>>

\* The example of the specification was built.
C14_Witness ==
    /\ pc = "built"
    /\ pcmData = <<0, 1000, -1000>>
    /\ wavRate = Wide(24000)
    /\ Len(wavBytes) = 50

\* The little-endian fields of the header at a byte offset.
Field32(bytes, byteOffset) ==
    [hi |-> bytes[byteOffset + 3] + 256 * bytes[byteOffset + 4],
     lo |-> bytes[byteOffset + 1] + 256 * bytes[byteOffset + 2]]

Field16(bytes, byteOffset) == bytes[byteOffset + 1] + 256 * bytes[byteOffset + 2]

\* The fields of the header that do not depend on the sample rate.
HeaderFixedFields ==
    /\ SubSeq(wavBytes, 1, 4) = <<82, 73, 70, 70>>
    /\ Field32(wavBytes, 4) = Wide(36 + 2 * Len(pcmData))
    /\ SubSeq(wavBytes, 9, 12) = <<87, 65, 86, 69>>
    /\ SubSeq(wavBytes, 13, 16) = <<102, 109, 116, 32>>
    /\ Field32(wavBytes, 16) = Wide(16)
    /\ Field16(wavBytes, 20) = 1
    /\ Field16(wavBytes, 22) = 1
    /\ Field16(wavBytes, 32) = 2
    /\ Field16(wavBytes, 34) = 16
    /\ SubSeq(wavBytes, 37, 40) = <<100, 97, 116, 97>>
    /\ Field32(wavBytes, 40) = Wide(2 * Len(pcmData))

\* C15 as stated: for every positive sample rate R, bytes 24-27 hold R and
\* bytes 28-31 hold 2 * R, next to the fixed fields.
C15_HeaderAsStated ==
    pc = "built" =>
        /\ HeaderFixedFields
        /\ Field32(wavBytes, 24) = wavRate
        /\ Field32(wavBytes, 28) = WideTimes(2, wavRate)

\* w modulo 2^32.
Mod32(w) == [hi |-> w.hi % 65536, lo |-> w.lo]

\* C15: the fixed fields are as stated; bytes 24-27 hold R modulo 2^32 and
\* bytes 28-31 hold 2 * R modulo 2^32, which are R and 2 * R when R < 2^31.
C15_Header ==
    pc = "built" =>
        /\ HeaderFixedFields
        /\ Field32(wavBytes, 24) = Mod32(wavRate)
        /\ Field32(wavBytes, 28) = Mod32(WideTimes(2, wavRate))
        /\ wavRate.hi < 32768 =>
            /\ Field32(wavBytes, 24) = wavRate
            /\ Field32(wavBytes, 28) = WideTimes(2, wavRate)

\* A header was built for a rate of 2^31, with samples.
C15_Witness ==
    /\ pc = "built"
    /\ wavRate = [hi |-> 32768, lo |-> 0]
    /\ Len(pcmData) = MaxSamples

\* C16: decoding the string fileToBase64 produced for a file never throws and
\* yields the bytes of the file, the same number in the same order.
C16_Base64RoundTrip ==
    /\ pc # "threw"
    /\ pc = "decoded" =>
        /\ Len(decodedBytes) = Len(binaryData.bytes)
        /\ decodedBytes = binaryData.bytes

\* A file whose last group is one byte, padded with "==", went round.
C16_Witness ==
    /\ pc = "decoded"
    /\ Len(binaryData.bytes) = 4
    /\ binaryData.bytes[4] = 255
    /\ Len(base64String) = 8
    /\ base64String[8] = "="

\* The response the results were populated from has four verdicts "pass".
AllPassApplied ==
    /\ ResponseApplied
    /\ \A f \in VerdictFields : Get(resultOf.parsedJson, f) = "pass"

\* C17: once a response with four verdicts "pass" is applied, title and
\* description are the response's, tags are the response's tags, or the empty
\* sequence when it has none, and no error is set; every step that applies
\* such a response ends the analysis without an error.
C17_AllPassState ==
    AllPassApplied =>
        /\ title = Get(resultOf.parsedJson, "title")
        /\ imageDescription = Get(resultOf.parsedJson, "imageDescription")
        /\ tags = (IF "tags" \in DOMAIN resultOf.parsedJson
                   THEN resultOf.parsedJson["tags"] ELSE <<>>)
        /\ error = null

\* An all-pass response without tags was applied.
C17_Witness ==
    /\ AllPassApplied
    /\ "title" \in DOMAIN resultOf.parsedJson
    /\ "tags" \notin DOMAIN resultOf.parsedJson
    /\ tags = <<>>
    /\ error = null
    /\ ~loading

\* C18: once a response is applied, each of the four verdicts and each of
\* the four explanations is the response's field of that name, whether the
\* verdicts are "pass" or "found".
C18_VerdictsFromResponse ==
    ResponseApplied =>
        /\ copyrightStatus = Get(resultOf.parsedJson, "status")
        /\ copyrightDescription = Get(resultOf.parsedJson, "copyrightDescription")
        /\ zedgeViolationStatus = Get(resultOf.parsedJson, "zedgeViolationStatus")
        /\ zedgeViolationDescription = Get(resultOf.parsedJson, "zedgeViolationDescription")
        /\ womenPolicyStatus = Get(resultOf.parsedJson, "womenPolicyStatus")
        /\ womenPolicyDescription = Get(resultOf.parsedJson, "womenPolicyDescription")
        /\ kidsViolationStatus = Get(resultOf.parsedJson, "kidsViolationStatus")
        /\ kidsViolationDescription = Get(resultOf.parsedJson, "kidsViolationDescription")

\* A response with a verdict "found" and its explanation is on display.
C18_Witness ==
    /\ ResponseApplied
    /\ kidsViolationStatus = "found"
    /\ copyrightStatus = "pass"
    /\ Truthy(kidsViolationDescription)
    /\ Truthy(copyrightDescription)
    /\ ~loading

\* The speech handler is called with an absent or empty text.
SpeakWithoutText ==
    /\ ClickSpeakDescription
    /\ ~Truthy(imageDescription)

\* C19: analyzeImageWithAI called with no image selected shows the advisory
\* "Please upload an image first." and changes nothing else: loading,
\* verdicts, explanations, metadata, error and the pending requests are as
\* before; handleTextToSpeech called with an absent or empty text changes
\* nothing at all: the flag and the pending requests are as before.
C19_PreconditionFailures ==
    [][/\ AnalyzeWithoutImage =>
            /\ isModalOpen'
            /\ modalContent' = "Please upload an image first."
            /\ UNCHANGED <<imageVars, resultVars, loading, fixedVars, analyses, speechVars,
                           objectUrls>>
       /\ SpeakWithoutText => UNCHANGED vars]_vars

\* The advisory is shown after a call with no image, nothing being pending.
C19_Witness ==
    /\ ~Truthy(imageFile)
    /\ isModalOpen
    /\ modalContent = "Please upload an image first."
    /\ ~loading
    /\ analyses = <<>>
    /\ error = null

\* C20: loading is true exactly while an accepted analysis has not completed:
\* it is set when the analysis is accepted, it is cleared when the exchange
\* succeeds and when it fails, and no other step clears it while the file
\* read or the remote call has not returned.
C20_LoadingIffPending == loading <=> (analyses # <<>>)

\* An analysis failed, another was accepted and completed: loading is clear
\* and an error and a response were each handled.
C20_Witness ==
    /\ ~loading
    /\ analyses = <<>>
    /\ ResponseApplied
    /\ isModalOpen
    /\ modalContent = AnalysisErrorMessage("request failed")

\* An image file is selected through the file input or by a drop.
SelectImage ==
    \E file \in Files : StartsWith(FileType(file), ImagePrefix) /\ handleFileSelect(file)

\* C21: while an analysis error message is set, all four verdicts are
\* unevaluated and the metadata is empty; the start of a new analysis, the
\* selection of an image and Clear each leave the error message cleared.
C21_ErrorExcludesResults ==
    /\ [](error # null => (AllUnevaluated /\ ~MetadataPresent))
    /\ [][(ClickAnalysis \/ SelectImage \/ handleClear) => error' = null]_vars

\* The error of a failed analysis is still recorded after its dialog was
\* closed, the image being still selected.
C21_Witness ==
    /\ error # null
    /\ Truthy(imageFile)
    /\ ~isModalOpen
    /\ AllUnevaluated
    /\ ~MetadataPresent

\* C22: selecting a file whose type starts with "image/" makes it the current
\* image and leaves the four verdicts unevaluated, the explanations absent,
\* the metadata empty and the error cleared; selecting no file, or a file of
\* another type, changes nothing.
C22_FileSelectFrame ==
    [][\A file \in Files \cup {null} :
        handleFileSelect(file) =>
            IF file # null /\ StartsWith(FileType(file), ImagePrefix)
            THEN /\ imageFile' = file
                 /\ Truthy(imageUrl')
                 /\ AllUnevaluated'
                 /\ NoExplanations'
                 /\ title' = null
                 /\ imageDescription' = null
                 /\ tags' = <<>>
                 /\ error' = null
            ELSE UNCHANGED vars]_vars

\* A second image took the place of a first one, nothing being on display.
C22_Witness ==
    /\ imageFile = "b.jpg"
    /\ Truthy(imageUrl)
    /\ Cardinality(objectUrls) = 2
    /\ AllUnevaluated
    /\ NoExplanations
    /\ ~MetadataPresent
    /\ error = null

\* C23: Clear leaves no image selected, the four verdicts unevaluated, the
\* explanations absent, the metadata empty and the error cleared, and leaves
\* loading and isSpeaking as they were; from then on only the selection of an
\* image makes an image selected, and until then a call of analyzeImageWithAI
\* ends at the no-image check: it shows the advisory, starts no request and
\* leaves loading and the results as they were.
C23_ClearFrame ==
    [][/\ handleClear =>
            /\ imageFile' = null
            /\ imageUrl' = null
            /\ AllUnevaluated'
            /\ NoExplanations'
            /\ ~MetadataPresent'
            /\ error' = null
            /\ UNCHANGED <<loading, isSpeaking>>
       /\ (~Truthy(imageFile) /\ Truthy(imageFile')) => SelectImage
       /\ (~Truthy(imageFile) /\ analyzeImageWithAI) =>
            /\ modalContent' = "Please upload an image first."
            /\ UNCHANGED <<loading, analyses, resultVars>>]_vars

\* Clear came while an analysis and a speech operation were going on, and a
\* call of the analysis handler was then turned down.
C23_Witness ==
    /\ imageFile = null
    /\ imageUrl = null
    /\ loading
    /\ isSpeaking
    /\ AllUnevaluated
    /\ error = null
    /\ isModalOpen
    /\ modalContent = "Please upload an image first."

\* A step of a speak operation: a call accepted or turned down, the response
\* or failure of the request, the failure or the end of the playback.
SpeechStep ==
    \/ ClickSpeakTitle
    \/ ClickSpeakDescription
    \/ SpeechFailed
    \/ SpeechResolved
    \/ PlayRejected
    \/ PlayEnded

\* A step of an analysis, a file selection or Clear.
AnalysisStep ==
    \/ ClickAnalysis
    \/ ReadResolved
    \/ ReadRejected
    \/ ResponseParsed
    \/ ResponseFailed
    \/ SelectFile
    \/ handleClear

\* C24: no step of a speak operation changes the image, the verdicts, the
\* explanations, the metadata, loading or the analysis error, and no step of
\* an analysis, a file selection or Clear changes isSpeaking.
C24_SpeechAnalysisApart ==
    [][/\ \/ UNCHANGED <<imageVars, verdictVars, descriptionVars, metadataVars, loading, error>>
          \/ ~SpeechStep
       /\ \/ UNCHANGED isSpeaking
          \/ ~AnalysisStep]_vars

\* A speech request and an analysis request are outstanding together.
C24_Witness ==
    /\ speeches # <<>>
    /\ analyses # <<>>
    /\ analyses[1].stage = "generating"
    /\ isSpeaking
    /\ loading
    /\ Truthy(imageFile)
====
